---- MODULE Spec2Model ----
(***************************************************************************)
(* Model of the NIPI packet capture engine                                 *)
(* (src/src/capture/packet_engine.py, class PacketCaptureEngine).          *)
(*                                                                         *)
(* The specifications share the variables:                                 *)
(*   Spec        the engine under IP traffic: start_capture, stop_capture  *)
(*               and one call of packet_handler are single steps; the      *)
(*               processor threads (_process_packets, _analyze_packet,     *)
(*               _update_flow_session, _cleanup_old_flows) run statement   *)
(*               by statement on the flow table while the clock advances;  *)
(*   SpecQueue   the engine under traffic without IP layer: the control    *)
(*               thread, the capture threads and the processor threads     *)
(*               run statement by statement on the queue and the counters  *)
(*               (FairSpecQueue adds fairness of the threads' own steps);  *)
(*   SpecDrain   as SpecQueue, with start_capture and stop_capture as      *)
(*               single steps (FairSpecDrain adds fairness of the          *)
(*               processor threads);                                       *)
(*   SpecTracker the flow tracker as run by the one processor thread of a  *)
(*               started engine, with a clock that also advances by        *)
(*               exactly flow_timeout (FairSpecTracker adds fairness);     *)
(*   SpecFlowId  the pure function _create_flow_id applied to the two      *)
(*               directions of a conversation;                             *)
(*   SpecOrder   two processor threads on one queue of two frames;         *)
(*   SpecStats   get_statistics called at any time of the life of an       *)
(*               engine that is started once;                              *)
(*   SpecDecode  _extract_packet_info applied twice to one frame while     *)
(*               the engine runs;                                          *)
(*   SpecAutoSelect  the pure function auto_select_interface applied to    *)
(*               lists of interfaces;                                      *)
(*   SpecFail    as SpecDrain, with the calls of stop_capture on a         *)
(*               stopped engine (FairSpecFail adds fairness of the         *)
(*               processor threads);                                       *)
(*   SpecRace    two request threads calling start_capture on a stopped    *)
(*               engine, statement by statement.                           *)
(***************************************************************************)
EXTENDS Integers, Sequences, FiniteSets, TLC

(***************************************************************************)
(* Bounds of the model.                                                    *)
(***************************************************************************)
\* capacity of packet_queue (Queue(maxsize=10000) in the source, scaled)
QueueMaxSize == 2
\* frames the capture source delivers in one behaviour
MaxFrames == 3
\* start_capture calls that get past the is_running check (threads spawned)
MaxStarts == 2
\* stop_capture calls in one behaviour
MaxStops == 2
\* clock advances in one behaviour
MaxTicks == 1
\* frames handed to the flow tracker in one behaviour of SpecTracker
MaxTrackerFrames == 3
\* clock advances in one behaviour of SpecTracker
MaxTrackerTicks == 3

\* Python's None for a port of a packet without transport ports
None == -1

\* self.flow_timeout
flow_timeout == 300

\* the clock advances by one second, or by a whole idle timeout
TickSteps == {1, flow_timeout}
\* in Spec the clock advances past an idle timeout at once
EngineTickSteps == {flow_timeout + 1}

(***************************************************************************)
(* Addresses are Python strings; the source orders them with the string    *)
(* comparison `<`.  A string is modelled as the sequence of its character  *)
(* codes: "1", "10" and "9" (so that "10" < "9" as strings).               *)
(***************************************************************************)
IpAddrs == { <<1>>, <<1, 0>>, <<9>> }

RECURSIVE StrLess(_, _)
StrLess(a, b) ==
    IF b = <<>> THEN FALSE
    ELSE IF a = <<>> THEN TRUE
    ELSE IF Head(a) < Head(b) THEN TRUE
    ELSE IF Head(a) > Head(b) THEN FALSE
    ELSE StrLess(Tail(a), Tail(b))

\* the dictionary _extract_packet_info returns for an IP packet
PacketInfo(src_ip, src_port, dst_ip, dst_port, protocol_name, size) ==
    [src_ip |-> src_ip, src_port |-> src_port,
     dst_ip |-> dst_ip, dst_port |-> dst_port,
     protocol_name |-> protocol_name, packet_size |-> size]

\* hashlib.md5(flow_key.encode()).hexdigest(): a function of the key string
md5(flow_key) == [digest_of |-> flow_key]

\* `src_port < dst_port`: Python raises TypeError when an operand is None
PortLessRaises(src_port, dst_port) == src_port = None \/ dst_port = None

\* a flow id that keeps the packet's own direction
CreateFlowIdDirected(info) ==
    IF info.src_ip = info.dst_ip /\ PortLessRaises(info.src_port, info.dst_port)
    THEN [raised |-> TRUE, id |-> md5(<<>>)]
    ELSE IF StrLess(info.src_ip, info.dst_ip)
            \/ (info.src_ip = info.dst_ip /\ info.src_port < info.dst_port)
         THEN [raised |-> FALSE,
               id |-> md5(<<info.src_ip, info.src_port,
                            info.dst_ip, info.dst_port, info.protocol_name>>)]
         ELSE [raised |-> FALSE,
               id |-> md5(<<info.src_ip, info.src_port,
                            info.dst_ip, info.dst_port, info.protocol_name>>)]

\* _create_flow_id (lines 323-337): the f-string lists the lesser endpoint
\* first; the digest of the string is returned
_create_flow_id(info) ==
    IF info.src_ip = info.dst_ip /\ PortLessRaises(info.src_port, info.dst_port)
    THEN [raised |-> TRUE, id |-> md5(<<>>)]
    ELSE IF StrLess(info.src_ip, info.dst_ip)
            \/ (info.src_ip = info.dst_ip /\ info.src_port < info.dst_port)
         THEN [raised |-> FALSE,
               id |-> md5(<<info.src_ip, info.src_port,
                            info.dst_ip, info.dst_port, info.protocol_name>>)]
         ELSE [raised |-> FALSE,
               id |-> md5(<<info.dst_ip, info.dst_port,
                            info.src_ip, info.src_port, info.protocol_name>>)]

(***************************************************************************)
(* Raw frames.  A frame is what scapy hands to packet_handler; the fields  *)
(* are the layers _extract_packet_info looks at; malformed tells that      *)
(* reading a layer of the frame raises an exception.                       *)
(***************************************************************************)
Frame(has_ip, src_ip, src_port, dst_ip, dst_port, protocol_name, len, malformed) ==
    [has_ip |-> has_ip, src_ip |-> src_ip, src_port |-> src_port,
     dst_ip |-> dst_ip, dst_port |-> dst_port,
     protocol_name |-> protocol_name, len |-> len, malformed |-> malformed]

FrameTable ==
    << Frame(TRUE,  <<1>>, 1234, <<1, 0>>, 80, "TCP", 64, FALSE),  \* scenario A
       Frame(TRUE,  <<1, 0>>, 80, <<1>>, 1234, "TCP", 64, FALSE),  \* its reply
       Frame(FALSE, <<>>, None, <<>>, None, "OTHER", 64, FALSE),   \* no IP layer
       Frame(TRUE,  <<9>>, 53, <<1>>, 53, "UDP", 64, FALSE),       \* another flow
       Frame(TRUE,  <<9>>, None, <<9>>, None, "ICMP", 64, FALSE),  \* ping to self
       Frame(TRUE,  <<1>>, None, <<9>>, None, "ICMP", 64, FALSE),
       Frame(TRUE,  <<1>>, 1234, <<1, 0>>, 80, "TCP", 64, TRUE) >> \* cut short

\* no frame in hand
NoFrame == 0

\* the interface argument of start_capture (after auto selection): the
\* name of an interface sniff can open, or of one it cannot
Interfaces == {"eth0", "nonexistent"}
\* the interfaces sniff can open
Openable == {"eth0"}
\* in Spec the engine is started on an interface that can be opened
EngineInterfaces == {"eth0"}
\* the interface of a capture thread that was not created
NoInterface == "none"
\* frames the capture source delivers in Spec
EngineFrames == {1, 3, 4}
\* frames fed to the flow tracker in SpecTracker
TrackerFrames == 1 .. Len(FrameTable)

\* a decoder that takes a frame it cannot read for the packet it began as
ExtractIgnoresErrors(f) ==
    IF ~ FrameTable[f].has_ip THEN <<>>
    ELSE << PacketInfo(FrameTable[f].src_ip, FrameTable[f].src_port,
                       FrameTable[f].dst_ip, FrameTable[f].dst_port,
                       FrameTable[f].protocol_name, FrameTable[f].len) >>

\* _extract_packet_info: None (here <<>>) for a frame whose decoding
\* raises (lines 260-262) and for a frame without IP layer (lines 222-224),
\* else the one-element sequence holding the packet's dictionary
_extract_packet_info(f) ==
    IF FrameTable[f].malformed THEN <<>>
    ELSE IF ~ FrameTable[f].has_ip THEN <<>>
    ELSE << PacketInfo(FrameTable[f].src_ip, FrameTable[f].src_port,
                       FrameTable[f].dst_ip, FrameTable[f].dst_port,
                       FrameTable[f].protocol_name, FrameTable[f].len) >>

(***************************************************************************)
(* The flow table.  A Python dict iterates in insertion order, so          *)
(* active_flows is the sequence of its values in insertion order; the key  *)
(* of an entry is its session_id.                                          *)
(***************************************************************************)
FlowIndex(flows, id) ==
    IF \E i \in 1 .. Len(flows) : flows[i].session_id = id
    THEN CHOOSE i \in 1 .. Len(flows) : flows[i].session_id = id
    ELSE 0

HasFlow(flows, id) == FlowIndex(flows, id) # 0

\* the dictionary _update_flow_session stores for a new flow
NewFlow(id, info, current_time) ==
    [session_id |-> id,
     src_ip |-> info.src_ip, src_port |-> info.src_port,
     dst_ip |-> info.dst_ip, dst_port |-> info.dst_port,
     protocol |-> info.protocol_name,
     start_time |-> current_time, last_seen |-> current_time,
     packet_count |-> 1, bytes_transferred |-> info.packet_size,
     status |-> "active"]

\* an update that leaves the packet count alone
TouchedFlowNoCount(flow, info, current_time) ==
    [flow EXCEPT !.last_seen = current_time,
                 !.bytes_transferred = @ + info.packet_size]

\* an update that takes a packet off the count
TouchedFlowCountsDown(flow, info, current_time) ==
    [flow EXCEPT !.last_seen = current_time,
                 !.packet_count = @ - 1,
                 !.bytes_transferred = @ + info.packet_size]

\* the in-place update of an existing flow
TouchedFlow(flow, info, current_time) ==
    [flow EXCEPT !.last_seen = current_time,
                 !.packet_count = @ + 1,
                 !.bytes_transferred = @ + info.packet_size]

\* the if/else of _update_flow_session (lines 296-315)
UpsertFlow(flows, id, info, current_time) ==
    IF HasFlow(flows, id)
    THEN [flows EXCEPT ![FlowIndex(flows, id)] =
                           TouchedFlow(@, info, current_time)]
    ELSE Append(flows, NewFlow(id, info, current_time))

\* a test that also takes a flow idle for exactly flow_timeout
IsOldInclusive(flow, current_time) ==
    current_time - flow.last_seen >= flow_timeout

\* the test of _cleanup_old_flows for one flow
IsOld(flow, current_time) == current_time - flow.last_seen > flow_timeout

\* flows_to_remove: the ids of the old flows, in iteration order
RECURSIVE FlowsToRemove(_, _)
FlowsToRemove(flows, current_time) ==
    IF flows = <<>> THEN <<>>
    ELSE (IF IsOld(Head(flows), current_time)
          THEN << Head(flows).session_id >> ELSE <<>>)
         \o FlowsToRemove(Tail(flows), current_time)

\* a row that reports one packet whatever the flow has seen
FlowRecordCountsOne(flow, current_time) ==
    [session_id |-> flow.session_id,
     start_time |-> flow.start_time, end_time |-> flow.last_seen,
     duration |-> current_time - flow.last_seen,
     packet_count |-> 1,
     bytes_transferred |-> flow.bytes_transferred,
     status |-> "timeout"]

\* the FlowSession row built for an old flow
FlowRecord(flow, current_time) ==
    [session_id |-> flow.session_id,
     start_time |-> flow.start_time, end_time |-> flow.last_seen,
     duration |-> current_time - flow.last_seen,
     packet_count |-> flow.packet_count,
     bytes_transferred |-> flow.bytes_transferred,
     status |-> "timeout"]

\* the rows offered to the database by one sweep, in iteration order
RECURSIVE FlowRecords(_, _)
FlowRecords(flows, current_time) ==
    IF flows = <<>> THEN <<>>
    ELSE (IF IsOld(Head(flows), current_time)
          THEN << FlowRecord(Head(flows), current_time) >> ELSE <<>>)
         \o FlowRecords(Tail(flows), current_time)

RemoveAt(flows, i) ==
    [j \in 1 .. Len(flows) - 1 |-> IF j < i THEN flows[j] ELSE flows[j + 1]]

\* a delete loop that removes nothing
DeleteFlowsKeeps(flows, ids) == flows

\* `for flow_id in flows_to_remove: del self.active_flows[flow_id]`:
\* del raises KeyError for a key that is gone, which ends the loop
RECURSIVE DeleteFlows(_, _)
DeleteFlows(flows, ids) ==
    IF ids = <<>> THEN flows
    ELSE IF ~ HasFlow(flows, Head(ids)) THEN flows
    ELSE DeleteFlows(RemoveAt(flows, FlowIndex(flows, Head(ids))), Tail(ids))

(***************************************************************************)
(* State of the engine.                                                    *)
(***************************************************************************)
VARIABLES
    is_running,        \* self.is_running
    packet_queue,      \* self.packet_queue, the frames it holds, oldest first
    stats,             \* self.stats
    active_flows,      \* self.active_flows
    capture_thread,    \* self.capture_thread: index of a capture thread, 0 = None
    processor_thread,  \* self.processor_thread: index, 0 = None
    capture,           \* the capture threads (_capture_packets)
    processor,         \* the processor threads (_process_packets)
    caller,            \* the control threads calling start_capture/stop_capture
    sink_packets,      \* frames whose PacketCapture row was offered to the database
    sink_flows,        \* FlowSession rows offered to the database
    now,               \* datetime.utcnow(), in seconds
    delivered,         \* frames delivered by the capture source so far
    stops,             \* stop_capture calls so far
    ticks,             \* clock advances so far
    probe,             \* SpecFlowId: the arguments and results of _create_flow_id
    outcome            \* what the last call of each control thread gave its caller

vars == << is_running, packet_queue, stats, active_flows, capture_thread,
           processor_thread, capture, processor, caller, sink_packets,
           sink_flows, now, delivered, stops, ticks, probe, outcome >>

\* capture and processor threads, in the order start_capture creates them
Threads == 1 .. MaxStarts
\* control threads (requests of the web control surface)
Callers == {1}

UnbornCapture ==
    [pc |-> "unborn", packet |-> NoFrame, reg |-> 0, interface |-> NoInterface]
UnbornProcessor ==
    [pc |-> "unborn", packet |-> NoFrame, flows_to_remove |-> <<>>,
     current_time |-> 0, stored |-> <<>>, reg |-> 0]
NoProbe == [applied |-> FALSE]

\* what a call gives its caller: start_capture and stop_capture return None
\* on every path and raise nothing of their own; the paths that find
\* nothing to do log a warning (lines 82, 112)
Returned(op, warned) == [op |-> op, raised |-> "none", warned |-> warned]
NoOutcome == [op |-> "none", raised |-> "none", warned |-> FALSE]

\* PacketCaptureEngine.__init__
EngineInit ==
    /\ is_running = FALSE
    /\ packet_queue = <<>>
    /\ stats = [packets_captured |-> 0, packets_processed |-> 0,
                packets_dropped |-> 0, bytes_captured |-> 0,
                start_time |-> None]
    /\ active_flows = <<>>
    /\ capture_thread = 0
    /\ processor_thread = 0
    /\ sink_packets = <<>>
    /\ sink_flows = <<>>
    /\ now = 0
    /\ delivered = 0
    /\ stops = 0
    /\ ticks = 0

Init ==
    /\ EngineInit
    /\ capture = [p \in Threads |-> UnbornCapture]
    /\ processor = [c \in Threads |-> UnbornProcessor]
    /\ caller = [k \in Callers |-> "idle"]
    /\ probe = NoProbe
    /\ outcome = [k \in Callers |-> NoOutcome]

\* Queue.full() and Queue.empty()
full(q) == Len(q) >= QueueMaxSize
empty(q) == Len(q) = 0

Spawned == Cardinality({p \in Threads : capture[p].pc # "unborn"})
Starting == Cardinality({k \in DOMAIN caller : caller[k] \in {"start_set", "start_spawn"}})

(***************************************************************************)
(* The clock.                                                              *)
(***************************************************************************)
Tick ==
    /\ ticks < MaxTicks
    /\ \E d \in EngineTickSteps : now' = now + d
    /\ ticks' = ticks + 1
    /\ UNCHANGED << is_running, packet_queue, stats, active_flows,
                    capture_thread, processor_thread, capture, processor,
                    caller, sink_packets, sink_flows, delivered, stops, probe,
                    outcome >>

(***************************************************************************)
(* start_capture, run by control thread k.                                 *)
(***************************************************************************)
\* a call that finds the engine running and resets the counters
StartReturnsRunningResets(k) ==
    /\ caller[k] = "idle"
    /\ is_running
    /\ outcome' = [outcome EXCEPT ![k] = Returned("start_capture", TRUE)]
    /\ stats' = [stats EXCEPT !.packets_captured = 0,
                              !.packets_processed = 0,
                              !.packets_dropped = 0,
                              !.bytes_captured = 0]
    /\ UNCHANGED << is_running, packet_queue, active_flows,
                    capture_thread, processor_thread, capture, processor,
                    caller, sink_packets, sink_flows, now, delivered, stops,
                    ticks, probe >>

\* lines 81-83: the call returns when is_running is set
StartReturnsRunning(k) ==
    /\ caller[k] = "idle"
    /\ is_running
    /\ outcome' = [outcome EXCEPT ![k] = Returned("start_capture", TRUE)]
    /\ UNCHANGED << is_running, packet_queue, stats, active_flows,
                    capture_thread, processor_thread, capture, processor,
                    caller, sink_packets, sink_flows, now, delivered, stops,
                    ticks, probe >>

\* lines 81-88: the check is passed (interface selection changes no state)
StartCheck(k) ==
    /\ caller[k] = "idle"
    /\ ~ is_running
    /\ Spawned + Starting < MaxStarts
    /\ caller' = [caller EXCEPT ![k] = "start_set"]
    /\ UNCHANGED << is_running, packet_queue, stats, active_flows,
                    capture_thread, processor_thread, capture, processor,
                    sink_packets, sink_flows, now, delivered, stops, ticks,
                    probe, outcome >>

\* lines 90-91
StartSet(k) ==
    /\ caller[k] = "start_set"
    /\ is_running' = TRUE
    /\ stats' = [stats EXCEPT !.start_time = now]
    /\ caller' = [caller EXCEPT ![k] = "start_spawn"]
    /\ UNCHANGED << packet_queue, active_flows, capture_thread,
                    processor_thread, capture, processor, sink_packets,
                    sink_flows, now, delivered, stops, ticks, probe, outcome >>

\* lines 94-107: both threads are created and started, the capture thread
\* with the interface as argument, and the call returns
StartSpawn(k) ==
    /\ caller[k] = "start_spawn"
    /\ LET t == Spawned + 1 IN
         /\ processor' = [processor EXCEPT ![t].pc = "while"]
         /\ \E interface \in Interfaces :
              capture' = [capture EXCEPT ![t].pc = "sniff",
                                         ![t].interface = interface]
         /\ processor_thread' = t
         /\ capture_thread' = t
    /\ caller' = [caller EXCEPT ![k] = "idle"]
    /\ outcome' = [outcome EXCEPT ![k] = Returned("start_capture", FALSE)]
    /\ UNCHANGED << is_running, packet_queue, stats, active_flows,
                    sink_packets, sink_flows, now, delivered, stops, ticks,
                    probe >>

(***************************************************************************)
(* stop_capture, run by control thread k.                                  *)
(***************************************************************************)
\* lines 111-113
StopReturnsStopped(k) ==
    /\ caller[k] = "idle"
    /\ ~ is_running
    /\ outcome' = [outcome EXCEPT ![k] = Returned("stop_capture", TRUE)]
    /\ UNCHANGED << is_running, packet_queue, stats, active_flows,
                    capture_thread, processor_thread, capture, processor,
                    caller, sink_packets, sink_flows, now, delivered, stops,
                    ticks, probe >>

\* lines 111-116
StopClear(k) ==
    /\ caller[k] = "idle"
    /\ is_running
    /\ stops < MaxStops
    /\ is_running' = FALSE
    /\ stops' = stops + 1
    /\ caller' = [caller EXCEPT ![k] = "join_capture"]
    /\ UNCHANGED << packet_queue, stats, active_flows, capture_thread,
                    processor_thread, capture, processor, sink_packets,
                    sink_flows, now, delivered, ticks, probe, outcome >>

\* lines 119-120: join returns when the thread has ended
JoinCapture(k) ==
    /\ caller[k] = "join_capture"
    /\ IF capture_thread = 0 THEN TRUE
       ELSE capture[capture_thread].pc = "exited"
    /\ caller' = [caller EXCEPT ![k] = "join_processor"]
    /\ UNCHANGED << is_running, packet_queue, stats, active_flows,
                    capture_thread, processor_thread, capture, processor,
                    sink_packets, sink_flows, now, delivered, stops, ticks,
                    probe, outcome >>

\* lines 119-120: join(timeout=5) returns although the thread is alive
JoinCaptureTimeout(k) ==
    /\ caller[k] = "join_capture"
    /\ capture_thread # 0
    /\ capture[capture_thread].pc # "exited"
    /\ caller' = [caller EXCEPT ![k] = "join_processor"]
    /\ UNCHANGED << is_running, packet_queue, stats, active_flows,
                    capture_thread, processor_thread, capture, processor,
                    sink_packets, sink_flows, now, delivered, stops, ticks,
                    probe, outcome >>

\* lines 121-124
JoinProcessor(k) ==
    /\ caller[k] = "join_processor"
    /\ IF processor_thread = 0 THEN TRUE
       ELSE processor[processor_thread].pc = "exited"
    /\ caller' = [caller EXCEPT ![k] = "idle"]
    /\ outcome' = [outcome EXCEPT ![k] = Returned("stop_capture", FALSE)]
    /\ UNCHANGED << is_running, packet_queue, stats, active_flows,
                    capture_thread, processor_thread, capture, processor,
                    sink_packets, sink_flows, now, delivered, stops, ticks,
                    probe >>

\* lines 121-124: join(timeout=5) returns although the thread is alive
JoinProcessorTimeout(k) ==
    /\ caller[k] = "join_processor"
    /\ processor_thread # 0
    /\ processor[processor_thread].pc # "exited"
    /\ caller' = [caller EXCEPT ![k] = "idle"]
    /\ outcome' = [outcome EXCEPT ![k] = Returned("stop_capture", FALSE)]
    /\ UNCHANGED << is_running, packet_queue, stats, active_flows,
                    capture_thread, processor_thread, capture, processor,
                    sink_packets, sink_flows, now, delivered, stops, ticks,
                    probe >>

(***************************************************************************)
(* _capture_packets, run by capture thread p.  The statements              *)
(* `self.stats[k] += 1` are a read followed by a write: the value read is  *)
(* kept in the thread's reg.                                               *)
(***************************************************************************)
CaptureUnchanged ==
    UNCHANGED << active_flows, capture_thread, processor_thread, processor,
                 caller, sink_packets, sink_flows, now, stops, ticks, probe,
                    outcome >>

\* a capture thread that ends on the exception and leaves is_running set
SniffRaisesKeepsFlag(p) ==
    /\ capture[p].pc = "sniff"
    /\ capture' = [capture EXCEPT ![p].pc = "exited"]
    /\ UNCHANGED << is_running, packet_queue, stats, delivered >>
    /\ CaptureUnchanged

\* lines 154-156: sniff raises (the interface cannot be opened, or the
\* capture loop fails); on an interface that cannot be opened this is the
\* only step of the thread
SniffRaises(p) ==
    /\ capture[p].pc = "sniff"
    /\ is_running' = FALSE
    /\ capture' = [capture EXCEPT ![p].pc = "exited"]
    /\ UNCHANGED << packet_queue, stats, delivered >>
    /\ CaptureUnchanged

\* a handler that counts a frame it ignores as dropped
HandlerIgnoresCountsDrop(p, frames) ==
    /\ capture[p].pc = "sniff"
    /\ capture[p].interface \in Openable
    /\ delivered < MaxFrames
    /\ ~ is_running
    /\ frames # {}
    /\ delivered' = delivered + 1
    /\ capture' = [capture EXCEPT ![p].pc = "stop_filter"]
    /\ stats' = [stats EXCEPT !.packets_dropped = @ + 1]
    /\ UNCHANGED << is_running, packet_queue >>
    /\ CaptureUnchanged

\* lines 130-131: a frame arrives while is_running is false
HandlerIgnores(p, frames) ==
    /\ capture[p].pc = "sniff"
    /\ capture[p].interface \in Openable
    /\ delivered < MaxFrames
    /\ ~ is_running
    /\ frames # {}
    /\ delivered' = delivered + 1
    /\ capture' = [capture EXCEPT ![p].pc = "stop_filter"]
    /\ UNCHANGED << is_running, packet_queue, stats >>
    /\ CaptureUnchanged

\* lines 130-135: a frame arrives, is_running is set, the queue is asked
\* whether it is full
HandlerChecksFull(p, frames) ==
    /\ capture[p].pc = "sniff"
    /\ capture[p].interface \in Openable
    /\ delivered < MaxFrames
    /\ is_running
    /\ \E f \in frames :
         capture' = [capture EXCEPT
                       ![p].pc = IF full(packet_queue) THEN "drop_rd" ELSE "put",
                       ![p].packet = f]
    /\ delivered' = delivered + 1
    /\ UNCHANGED << is_running, packet_queue, stats >>
    /\ CaptureUnchanged

\* a put on a queue without maxsize: it never blocks
HandlerPutUnbounded(p) ==
    /\ capture[p].pc = "put"
    /\ packet_queue' = Append(packet_queue, capture[p].packet)
    /\ capture' = [capture EXCEPT ![p].pc = "cap_rd"]
    /\ UNCHANGED << is_running, stats, delivered >>
    /\ CaptureUnchanged

\* line 136: Queue.put(packet) blocks while the queue is full
HandlerPut(p) ==
    /\ capture[p].pc = "put"
    /\ Len(packet_queue) < QueueMaxSize
    /\ packet_queue' = Append(packet_queue, capture[p].packet)
    /\ capture' = [capture EXCEPT ![p].pc = "cap_rd"]
    /\ UNCHANGED << is_running, stats, delivered >>
    /\ CaptureUnchanged

\* line 137, the read
HandlerCapturedRead(p) ==
    /\ capture[p].pc = "cap_rd"
    /\ capture' = [capture EXCEPT ![p].pc = "cap_wr",
                                  ![p].reg = stats.packets_captured]
    /\ UNCHANGED << is_running, packet_queue, stats, delivered >>
    /\ CaptureUnchanged

\* line 137, the write
HandlerCapturedWrite(p) ==
    /\ capture[p].pc = "cap_wr"
    /\ stats' = [stats EXCEPT !.packets_captured = capture[p].reg + 1]
    /\ capture' = [capture EXCEPT ![p].pc = "bytes_rd", ![p].reg = 0]
    /\ UNCHANGED << is_running, packet_queue, delivered >>
    /\ CaptureUnchanged

\* line 138, the read
HandlerBytesRead(p) ==
    /\ capture[p].pc = "bytes_rd"
    /\ capture' = [capture EXCEPT ![p].pc = "bytes_wr",
                                  ![p].reg = stats.bytes_captured]
    /\ UNCHANGED << is_running, packet_queue, stats, delivered >>
    /\ CaptureUnchanged

\* line 138, the write
HandlerBytesWrite(p) ==
    /\ capture[p].pc = "bytes_wr"
    /\ stats' = [stats EXCEPT !.bytes_captured =
                                 capture[p].reg + FrameTable[capture[p].packet].len]
    /\ capture' = [capture EXCEPT ![p].pc = "stop_filter", ![p].reg = 0,
                                  ![p].packet = NoFrame]
    /\ UNCHANGED << is_running, packet_queue, delivered >>
    /\ CaptureUnchanged

\* line 140, the read
HandlerDroppedRead(p) ==
    /\ capture[p].pc = "drop_rd"
    /\ capture' = [capture EXCEPT ![p].pc = "drop_wr",
                                  ![p].reg = stats.packets_dropped]
    /\ UNCHANGED << is_running, packet_queue, stats, delivered >>
    /\ CaptureUnchanged

\* line 140, the write
HandlerDroppedWrite(p) ==
    /\ capture[p].pc = "drop_wr"
    /\ stats' = [stats EXCEPT !.packets_dropped = capture[p].reg + 1]
    /\ capture' = [capture EXCEPT ![p].pc = "stop_filter", ![p].reg = 0,
                                  ![p].packet = NoFrame]
    /\ UNCHANGED << is_running, packet_queue, delivered >>
    /\ CaptureUnchanged

\* line 151: stop_filter, evaluated after the handler has returned
StopFilter(p) ==
    /\ capture[p].pc = "stop_filter"
    /\ capture' = [capture EXCEPT
                     ![p].pc = IF is_running THEN "sniff" ELSE "exited"]
    /\ UNCHANGED << is_running, packet_queue, stats, delivered >>
    /\ CaptureUnchanged

(***************************************************************************)
(* _process_packets, run by processor thread c.                            *)
(***************************************************************************)
ProcessorUnchanged ==
    UNCHANGED << is_running, capture_thread, processor_thread, capture,
                 caller, now, delivered, stops, ticks, probe, outcome >>

\* a loop that ends when is_running is cleared, whatever the queue holds
LoopExitsOnFlag(c) ==
    /\ processor[c].pc = "while"
    /\ ~ is_running
    /\ processor' = [processor EXCEPT ![c].pc = "exited"]
    /\ UNCHANGED << packet_queue, stats, active_flows, sink_packets, sink_flows >>
    /\ ProcessorUnchanged

\* lines 160-163, 167-168: the loop condition and the test of the body.
\* The loop ends when is_running is cleared and the queue is empty; with
\* an empty queue the thread sleeps and tests again
LoopExits(c) ==
    /\ processor[c].pc = "while"
    /\ ~ is_running
    /\ empty(packet_queue)
    /\ processor' = [processor EXCEPT ![c].pc = "exited"]
    /\ UNCHANGED << packet_queue, stats, active_flows, sink_packets, sink_flows >>
    /\ ProcessorUnchanged

LoopEnters(c) ==
    /\ processor[c].pc = "while"
    /\ ~ empty(packet_queue)
    /\ processor' = [processor EXCEPT ![c].pc = "get"]
    /\ UNCHANGED << packet_queue, stats, active_flows, sink_packets, sink_flows >>
    /\ ProcessorUnchanged

\* line 164: Queue.get takes the oldest frame
QueueGet(c) ==
    /\ processor[c].pc = "get"
    /\ ~ empty(packet_queue)
    /\ processor' = [processor EXCEPT ![c].pc = "analyze",
                                      ![c].packet = Head(packet_queue)]
    /\ packet_queue' = Tail(packet_queue)
    /\ UNCHANGED << stats, active_flows, sink_packets, sink_flows >>
    /\ ProcessorUnchanged

\* lines 164, 170-171: Queue.get(timeout=1) raises Empty, which is logged
QueueGetTimeout(c) ==
    /\ processor[c].pc = "get"
    /\ empty(packet_queue)
    /\ processor' = [processor EXCEPT ![c].pc = "while"]
    /\ UNCHANGED << packet_queue, stats, active_flows, sink_packets, sink_flows >>
    /\ ProcessorUnchanged

\* _analyze_packet for a frame without IP layer or one that cannot be
\* decoded (lines 177-179, 222-224, 260-262)
AnalyzeSkips(c) ==
    /\ processor[c].pc = "analyze"
    /\ _extract_packet_info(processor[c].packet) = <<>>
    /\ processor' = [processor EXCEPT ![c].pc = "count_rd"]
    /\ UNCHANGED << packet_queue, stats, active_flows, sink_packets, sink_flows >>
    /\ ProcessorUnchanged

\* an _analyze_packet that gives the packet up when the database fails
AnalyzeAbortsOnSinkFailure(c) ==
    /\ processor[c].pc = "analyze"
    /\ _extract_packet_info(processor[c].packet) # <<>>
    /\ LET info == _extract_packet_info(processor[c].packet)[1]
           fid == _create_flow_id(info)
       IN  /\ sink_packets' = Append(sink_packets, processor[c].packet)
           /\ \E stored \in BOOLEAN :
                IF fid.raised \/ ~ stored
                THEN /\ active_flows' = active_flows
                     /\ processor' = [processor EXCEPT
                                        ![c].pc = "count_rd",
                                        ![c].stored = << stored >>]
                ELSE /\ active_flows' = UpsertFlow(active_flows, fid.id, info, now)
                     /\ processor' = [processor EXCEPT
                                        ![c].pc = "cleanup",
                                        ![c].stored = << stored >>]
    /\ UNCHANGED << packet_queue, stats >>
    /\ UNCHANGED sink_flows
    /\ ProcessorUnchanged

\* _analyze_packet for an IP packet: _store_packet (lines 264-285), whose
\* failure is logged, then _update_flow_session up to the flow update
\* (lines 289-315)
AnalyzeUpdatesFlow(c) ==
    /\ processor[c].pc = "analyze"
    /\ _extract_packet_info(processor[c].packet) # <<>>
    /\ LET info == _extract_packet_info(processor[c].packet)[1]
           fid == _create_flow_id(info)
       IN  /\ sink_packets' = Append(sink_packets, processor[c].packet)
           /\ \E stored \in BOOLEAN :
                IF fid.raised
                THEN /\ active_flows' = active_flows
                     /\ processor' = [processor EXCEPT
                                        ![c].pc = "count_rd",
                                        ![c].stored = << stored >>]
                ELSE /\ active_flows' = UpsertFlow(active_flows, fid.id, info, now)
                     /\ processor' = [processor EXCEPT
                                        ![c].pc = "cleanup",
                                        ![c].stored = << stored >>]
    /\ UNCHANGED << packet_queue, stats >>
    /\ UNCHANGED sink_flows
    /\ ProcessorUnchanged

\* _cleanup_old_flows, the first loop (lines 341-369): the old flows are
\* listed and each is offered to the database, whose failure is logged
CleanupScan(c) ==
    /\ processor[c].pc = "cleanup"
    /\ LET ids == FlowsToRemove(active_flows, now)
           recs == FlowRecords(active_flows, now)
       IN  /\ sink_flows' = sink_flows \o recs
           /\ \E stored \in [1 .. Len(recs) -> BOOLEAN] :
                processor' = [processor EXCEPT
                              ![c].pc = IF ids = <<>> THEN "count_rd" ELSE "delete",
                              ![c].flows_to_remove = ids,
                              ![c].current_time = IF ids = <<>> THEN 0 ELSE now,
                              ![c].stored = stored]
    /\ UNCHANGED << packet_queue, stats, active_flows, sink_packets >>
    /\ ProcessorUnchanged

\* the ids of a list whose row the database took
RECURSIVE StoredIds(_, _)
StoredIds(ids, stored) ==
    IF ids = <<>> THEN <<>>
    ELSE (IF Head(stored) THEN << Head(ids) >> ELSE <<>>)
         \o StoredIds(Tail(ids), Tail(stored))

\* a second loop that keeps the flows whose row the database refused
CleanupDeleteStoredOnly(c) ==
    /\ processor[c].pc = "delete"
    /\ active_flows' = DeleteFlows(active_flows,
                                   StoredIds(processor[c].flows_to_remove,
                                             processor[c].stored))
    /\ processor' = [processor EXCEPT ![c].pc = "count_rd",
                                      ![c].flows_to_remove = <<>>,
                                      ![c].current_time = 0,
                                      ![c].stored = <<>>]
    /\ UNCHANGED << packet_queue, stats, sink_packets, sink_flows >>
    /\ ProcessorUnchanged

\* _cleanup_old_flows, the second loop (lines 372-373); a KeyError ends
\* _update_flow_session (lines 320-321)
CleanupDelete(c) ==
    /\ processor[c].pc = "delete"
    /\ active_flows' = DeleteFlows(active_flows, processor[c].flows_to_remove)
    /\ processor' = [processor EXCEPT ![c].pc = "count_rd",
                                      ![c].flows_to_remove = <<>>,
                                      ![c].current_time = 0,
                                      ![c].stored = <<>>]
    /\ UNCHANGED << packet_queue, stats, sink_packets, sink_flows >>
    /\ ProcessorUnchanged

\* line 166, the read
ProcessedRead(c) ==
    /\ processor[c].pc = "count_rd"
    /\ processor' = [processor EXCEPT ![c].pc = "count_wr",
                                      ![c].packet = NoFrame,
                                      ![c].stored = <<>>,
                                      ![c].reg = stats.packets_processed]
    /\ UNCHANGED << packet_queue, stats, active_flows, sink_packets, sink_flows >>
    /\ ProcessorUnchanged

\* line 166, the write
ProcessedWrite(c) ==
    /\ processor[c].pc = "count_wr"
    /\ stats' = [stats EXCEPT !.packets_processed = processor[c].reg + 1]
    /\ processor' = [processor EXCEPT ![c].pc = "while", ![c].reg = 0]
    /\ UNCHANGED << packet_queue, active_flows, sink_packets, sink_flows >>
    /\ ProcessorUnchanged

(***************************************************************************)
(* The engine.                                                             *)
(***************************************************************************)
CallerStep(k) ==
    \/ StartReturnsRunning(k)
    \/ StartCheck(k)
    \/ StartSet(k)
    \/ StartSpawn(k)
    \/ StopReturnsStopped(k)
    \/ StopClear(k)
    \/ JoinCapture(k)
    \/ JoinCaptureTimeout(k)
    \/ JoinProcessor(k)
    \/ JoinProcessorTimeout(k)

CaptureStep(p, frames) ==
    \/ SniffRaises(p)
    \/ HandlerIgnores(p, frames)
    \/ HandlerChecksFull(p, frames)
    \/ HandlerPut(p)
    \/ HandlerCapturedRead(p)
    \/ HandlerCapturedWrite(p)
    \/ HandlerBytesRead(p)
    \/ HandlerBytesWrite(p)
    \/ HandlerDroppedRead(p)
    \/ HandlerDroppedWrite(p)
    \/ StopFilter(p)

ProcessorStep(c) ==
    \/ LoopExits(c)
    \/ LoopEnters(c)
    \/ QueueGet(c)
    \/ QueueGetTimeout(c)
    \/ AnalyzeSkips(c)
    \/ AnalyzeUpdatesFlow(c)
    \/ CleanupScan(c)
    \/ CleanupDelete(c)
    \/ ProcessedRead(c)
    \/ ProcessedWrite(c)

(***************************************************************************)
(* Spec: the engine under IP traffic, with the flow tracker and the clock. *)
(* Capture threads never touch the flow table, so here one call of         *)
(* packet_handler, with the stop_filter that follows it, is one step; the  *)
(* interleavings of the handler's statements are the subject of SpecQueue. *)
(***************************************************************************)
\* a handler that drops without counting the drop
HandleFrameSilentDrop(p) ==
    /\ capture[p].pc = "sniff"
    /\ capture[p].interface \in Openable
    /\ delivered < MaxFrames
    /\ delivered' = delivered + 1
    /\ \E f \in EngineFrames :
         IF ~ is_running
         THEN /\ capture' = [capture EXCEPT ![p].pc = "exited"]
              /\ UNCHANGED << packet_queue, stats >>
         ELSE IF ~ full(packet_queue)
         THEN /\ packet_queue' = Append(packet_queue, f)
              /\ stats' = [stats EXCEPT
                             !.packets_captured = @ + 1,
                             !.bytes_captured = @ + FrameTable[f].len]
              /\ UNCHANGED capture
         ELSE UNCHANGED << packet_queue, stats, capture >>
    /\ UNCHANGED is_running
    /\ CaptureUnchanged

\* lines 129-143 and 151 for one frame
HandleFrame(p) ==
    /\ capture[p].pc = "sniff"
    /\ capture[p].interface \in Openable
    /\ delivered < MaxFrames
    /\ delivered' = delivered + 1
    /\ \E f \in EngineFrames :
         IF ~ is_running
         THEN /\ capture' = [capture EXCEPT ![p].pc = "exited"]
              /\ UNCHANGED << packet_queue, stats >>
         ELSE IF ~ full(packet_queue)
         THEN /\ packet_queue' = Append(packet_queue, f)
              /\ stats' = [stats EXCEPT
                             !.packets_captured = @ + 1,
                             !.bytes_captured = @ + FrameTable[f].len]
              /\ UNCHANGED capture
         ELSE /\ stats' = [stats EXCEPT !.packets_dropped = @ + 1]
              /\ UNCHANGED << packet_queue, capture >>
    /\ UNCHANGED is_running
    /\ CaptureUnchanged

\* start_capture on a stopped engine (lines 81-107) as one step
Start ==
    /\ ~ is_running
    /\ Spawned < MaxStarts
    /\ is_running' = TRUE
    /\ stats' = [stats EXCEPT !.start_time = now]
    /\ LET t == Spawned + 1 IN
         /\ processor' = [processor EXCEPT ![t].pc = "while"]
         /\ \E interface \in EngineInterfaces :
              capture' = [capture EXCEPT ![t].pc = "sniff",
                                         ![t].interface = interface]
         /\ processor_thread' = t
         /\ capture_thread' = t
    /\ \E k \in Callers :
         outcome' = [outcome EXCEPT ![k] = Returned("start_capture", FALSE)]
    /\ UNCHANGED << packet_queue, active_flows, caller, sink_packets,
                    sink_flows, now, delivered, stops, ticks, probe >>

\* the row of a flow that is closed when the engine stops
ClosedRecord(flow) == [FlowRecord(flow, now) EXCEPT !.status = "closed"]

\* a stop_capture that hands every flow of the table to the database and
\* empties the table
StopFlushesFlows ==
    /\ is_running
    /\ stops < MaxStops
    /\ is_running' = FALSE
    /\ stops' = stops + 1
    /\ sink_flows' = sink_flows
                       \o [i \in 1 .. Len(active_flows) |->
                             ClosedRecord(active_flows[i])]
    /\ active_flows' = <<>>
    /\ \E k \in Callers :
         outcome' = [outcome EXCEPT ![k] = Returned("stop_capture", FALSE)]
    /\ UNCHANGED << packet_queue, stats, capture_thread,
                    processor_thread, capture, processor, caller,
                    sink_packets, now, delivered, ticks, probe >>

\* stop_capture on a running engine (lines 111-124) up to the joins, which
\* wait for the two threads or time out and change no state
Stop ==
    /\ is_running
    /\ stops < MaxStops
    /\ is_running' = FALSE
    /\ stops' = stops + 1
    /\ \E k \in Callers :
         outcome' = [outcome EXCEPT ![k] = Returned("stop_capture", FALSE)]
    /\ UNCHANGED << packet_queue, stats, active_flows, capture_thread,
                    processor_thread, capture, processor, caller,
                    sink_packets, sink_flows, now, delivered, ticks, probe >>

Next ==
    \/ Start
    \/ Stop
    \/ \E p \in Threads : HandleFrame(p) \/ SniffRaises(p)
    \/ \E c \in Threads : ProcessorStep(c)
    \/ Tick

Spec == Init /\ [][Next]_vars

(***************************************************************************)
(* The engine under traffic without IP layer (ARP, say): the frames pass   *)
(* through the queue and the counters, the flow tracker is not entered.    *)
(***************************************************************************)
QueueFrames == {3}

QueueProcessorStep(c) ==
    \/ LoopExits(c)
    \/ LoopEnters(c)
    \/ QueueGet(c)
    \/ QueueGetTimeout(c)
    \/ AnalyzeSkips(c)
    \/ ProcessedRead(c)
    \/ ProcessedWrite(c)

NextQueue ==
    \/ \E k \in Callers : CallerStep(k)
    \/ \E p \in Threads : CaptureStep(p, QueueFrames)
    \/ \E c \in Threads : QueueProcessorStep(c)

SpecQueue == Init /\ [][NextQueue]_vars

(***************************************************************************)
(* SpecTracker: the flow tracker as its one owner runs it.  The state      *)
(* after the first start_capture; processor thread 1 is handed frames (as  *)
(* Queue.get hands them over) and runs _analyze_packet on each; the clock  *)
(* advances by seconds and by whole timeouts, so that an idle time of      *)
(* exactly flow_timeout occurs.                                            *)
(***************************************************************************)
TrackerInit ==
    /\ is_running = TRUE
    /\ packet_queue = <<>>
    /\ stats = [packets_captured |-> 0, packets_processed |-> 0,
                packets_dropped |-> 0, bytes_captured |-> 0,
                start_time |-> 0]
    /\ active_flows = <<>>
    /\ capture_thread = 1
    /\ processor_thread = 1
    /\ sink_packets = <<>>
    /\ sink_flows = <<>>
    /\ now = 0
    /\ delivered = 0
    /\ stops = 0
    /\ ticks = 0
    /\ capture = [p \in Threads |->
                    IF p = 1 THEN [UnbornCapture EXCEPT !.pc = "sniff",
                                                        !.interface = "eth0"]
                    ELSE UnbornCapture]
    /\ processor = [c \in Threads |->
                      IF c = 1 THEN [UnbornProcessor EXCEPT !.pc = "while"]
                      ELSE UnbornProcessor]
    /\ caller = [k \in Callers |-> "idle"]
    /\ probe = NoProbe
    /\ outcome = [k \in Callers |-> NoOutcome]

\* line 164 for a frame f that went through the queue
TrackerGet ==
    /\ processor[1].pc = "while"
    /\ delivered < MaxTrackerFrames
    /\ delivered' = delivered + 1
    /\ \E f \in TrackerFrames :
         processor' = [processor EXCEPT ![1].pc = "analyze", ![1].packet = f]
    /\ UNCHANGED << is_running, packet_queue, stats, active_flows,
                    capture_thread, processor_thread, capture, caller,
                    sink_packets, sink_flows, now, stops, ticks, probe,
                    outcome >>

TrackerTick ==
    /\ ticks < MaxTrackerTicks
    /\ \E d \in TickSteps : now' = now + d
    /\ ticks' = ticks + 1
    /\ UNCHANGED << is_running, packet_queue, stats, active_flows,
                    capture_thread, processor_thread, capture, processor,
                    caller, sink_packets, sink_flows, delivered, stops, probe,
                    outcome >>

NextTracker ==
    \/ TrackerGet
    \/ AnalyzeSkips(1)
    \/ AnalyzeUpdatesFlow(1)
    \/ CleanupScan(1)
    \/ CleanupDelete(1)
    \/ ProcessedRead(1)
    \/ ProcessedWrite(1)
    \/ TrackerTick

SpecTracker == TrackerInit /\ [][NextTracker]_vars

(***************************************************************************)
(* SpecFlowId: _create_flow_id applied to a packet and to the packet of    *)
(* the opposite direction.                                                 *)
(***************************************************************************)
PortValues == {53, 80, 1234}

\* the dictionaries _extract_packet_info can return: TCP and UDP packets
\* carry two ports, ICMP and OTHER packets carry None for both
PacketInfos ==
    { PacketInfo(a, pa, b, pb, proto, 64) :
        a \in IpAddrs, pa \in PortValues, b \in IpAddrs, pb \in PortValues,
        proto \in {"TCP", "UDP"} }
    \cup
    { PacketInfo(a, None, b, None, proto, 64) :
        a \in IpAddrs, b \in IpAddrs, proto \in {"ICMP", "OTHER"} }

\* the packet of the opposite direction
Reverse(info) ==
    PacketInfo(info.dst_ip, info.dst_port, info.src_ip, info.src_port,
               info.protocol_name, info.packet_size)

FlowIdInit ==
    /\ EngineInit
    /\ capture = [p \in Threads |-> UnbornCapture]
    /\ processor = [c \in Threads |-> UnbornProcessor]
    /\ caller = [k \in Callers |-> "idle"]
    /\ outcome = [k \in Callers |-> NoOutcome]
    /\ probe \in { [applied |-> FALSE, info |-> i,
                    forward |-> [raised |-> FALSE, id |-> md5(<<>>)],
                    backward |-> [raised |-> FALSE, id |-> md5(<<>>)]] :
                   i \in PacketInfos }

ComputeFlowIds ==
    /\ ~ probe.applied
    /\ probe' = [probe EXCEPT !.applied = TRUE,
                              !.forward = _create_flow_id(probe.info),
                              !.backward = _create_flow_id(Reverse(probe.info))]
    /\ UNCHANGED << is_running, packet_queue, stats, active_flows,
                    capture_thread, processor_thread, capture, processor,
                    caller, sink_packets, sink_flows, now, delivered, stops,
                    ticks, outcome >>

NextFlowId == ComputeFlowIds

SpecFlowId == FlowIdInit /\ [][NextFlowId]_vars

(***************************************************************************)
(* Properties.                                                             *)
(***************************************************************************)
\* no capture thread is inside packet_handler
CaptureQuiescent ==
    \A p \in Threads : capture[p].pc \in {"unborn", "sniff", "exited"}

\* no processor thread is between Queue.get and the processed counter
ProcessorQuiescent ==
    \A c \in Threads : processor[c].pc \in {"unborn", "while", "exited"}

Quiescent == CaptureQuiescent /\ ProcessorQuiescent

\* C1: in every reachable state the packet queue holds at most
\* QueueMaxSize frames
C1_QueueBound == Len(packet_queue) <= QueueMaxSize

\* C1 witness: the queue is at capacity while a capture thread that found
\* it not full is about to put its frame
C1_Witness ==
    /\ Len(packet_queue) = QueueMaxSize
    /\ \E p \in Threads : capture[p].pc = "put"

\* C2 (as claimed): at a quiescent snapshot
\* dropped + processed + queue depth = captured
C2_Original ==
    Quiescent =>
        stats.packets_dropped + stats.packets_processed + Len(packet_queue)
            = stats.packets_captured

\* the engine has run since its one start, QueueMaxSize + 1 frames have
\* been handled and no processor thread has taken any of them
BurstDone ==
    /\ is_running
    /\ stops = 0
    /\ Spawned = 1
    /\ delivered = QueueMaxSize + 1
    /\ Len(packet_queue) = QueueMaxSize
    /\ stats.packets_processed = 0
    /\ Quiescent

\* C3 (as claimed): after a burst of QueueMaxSize + 1 frames with no
\* dequeue, dropped = 1 and captured = QueueMaxSize + 1
C3_Original ==
    BurstDone =>
        /\ stats.packets_dropped = 1
        /\ stats.packets_captured = QueueMaxSize + 1

\* C4: a frame that arrives while the engine runs and the queue is at
\* capacity leaves the queue, the captured counter and the byte counter
\* unchanged, adds one to the drop counter, and the capture thread goes on
\* sniffing
C4_DropOnFull ==
    [][\A p \in Threads :
          (HandleFrame(p) /\ is_running /\ full(packet_queue)) =>
              /\ packet_queue' = packet_queue
              /\ stats'.packets_dropped = stats.packets_dropped + 1
              /\ stats'.bytes_captured = stats.bytes_captured
              /\ stats'.packets_captured = stats.packets_captured
              /\ capture'[p].pc = "sniff"
              /\ is_running']_vars

\* C4 witness: a frame has been dropped and the capture thread that
\* dropped it is sniffing again
C4_Witness ==
    /\ stats.packets_dropped >= 1
    /\ full(packet_queue)
    /\ is_running
    /\ \E p \in Threads : capture[p].pc = "sniff"

\* C5 (as claimed): a capture thread that found the queue not full never
\* waits at the put for a processor thread to make room
C5_Original ==
    \A p \in Threads :
        capture[p].pc = "put" => Len(packet_queue) < QueueMaxSize

\* C6: the flow id of a packet and the flow id of the packet of the
\* opposite direction are the same (and when the one computation raises,
\* so does the other)
C6_FlowKeySymmetry ==
    probe.applied => probe.forward = probe.backward

\* C6 witness: an id was computed for a packet that goes from the greater
\* address to the lesser one
C6_Witness ==
    /\ probe.applied
    /\ ~ probe.forward.raised
    /\ StrLess(probe.info.dst_ip, probe.info.src_ip)

\* the flows of a table other than the flow id
OtherFlows(flows, id) == SelectSeq(flows, LAMBDA fl : fl.session_id # id)

\* C7: the flow update of _update_flow_session creates, for a key the
\* table does not hold, an active entry with packet_count 1, the packet's
\* size as byte count and start time = last seen = now; for a key it
\* holds, it sets last seen to now, adds one to packet_count and the
\* packet's size to the byte count; the other entries are untouched.  One
\* 64-byte packet ingested into an empty table leaves one active flow
\* with packet_count 1 and 64 bytes.
C7_Ingest ==
    [][(AnalyzeUpdatesFlow(1) /\ processor'[1].pc = "cleanup") =>
         LET info == _extract_packet_info(processor[1].packet)[1]
             id == _create_flow_id(info).id
             old == FlowIndex(active_flows, id)
             new == FlowIndex(active_flows', id)
         IN  /\ new # 0
             /\ OtherFlows(active_flows', id) = OtherFlows(active_flows, id)
             /\ Len(active_flows') = Len(active_flows) + (IF old = 0 THEN 1 ELSE 0)
             /\ active_flows'[new].status = "active"
             /\ active_flows'[new].last_seen = now
             /\ IF old = 0
                THEN /\ active_flows'[new].packet_count = 1
                     /\ active_flows'[new].bytes_transferred = info.packet_size
                     /\ active_flows'[new].start_time = now
                ELSE /\ active_flows'[new].packet_count =
                            active_flows[old].packet_count + 1
                     /\ active_flows'[new].bytes_transferred =
                            active_flows[old].bytes_transferred + info.packet_size
                     /\ active_flows'[new].start_time = active_flows[old].start_time
             /\ (active_flows = <<>> /\ processor[1].packet = 1) =>
                    /\ Len(active_flows') = 1
                    /\ active_flows'[1].packet_count = 1
                    /\ active_flows'[1].bytes_transferred = 64
                    /\ active_flows'[1].status = "active"]_vars

\* C7 witness: a flow that was created by one packet and updated by a
\* second one at a later time
C7_Witness ==
    \E i \in 1 .. Len(active_flows) :
        /\ active_flows[i].packet_count = 2
        /\ active_flows[i].bytes_transferred = 128
        /\ active_flows[i].last_seen > active_flows[i].start_time

\* C8: a sweep that runs at time current_time removes from the table
\* exactly the flows with current_time - last_seen > flow_timeout and
\* leaves the other flows as they were; a sweep that lists no flow finds
\* no flow over the timeout
C8_Sweep ==
    [][/\ CleanupDelete(1) =>
            active_flows' =
                SelectSeq(active_flows,
                          LAMBDA fl : ~ (processor[1].current_time - fl.last_seen
                                            > flow_timeout))
       /\ (CleanupScan(1) /\ processor'[1].pc # "delete") =>
            /\ active_flows' = active_flows
            /\ \A i \in 1 .. Len(active_flows) :
                   ~ (now - active_flows[i].last_seen > flow_timeout)]_vars

\* C8 witness: a sweep has removed a flow and has kept a flow that was
\* idle for exactly flow_timeout
C8_Witness ==
    /\ processor[1].pc = "count_rd"
    /\ Len(sink_flows) = 1
    /\ \E i \in 1 .. Len(active_flows) :
           now - active_flows[i].last_seen = flow_timeout

\* a flow of the table has been idle for longer than flow_timeout
IdleFlowInTable ==
    \E i \in 1 .. Len(active_flows) :
        now - active_flows[i].last_seen > flow_timeout

\* the steps of processor thread 1 that need no frame to arrive
TrackerProgress ==
    \/ AnalyzeSkips(1)
    \/ AnalyzeUpdatesFlow(1)
    \/ CleanupScan(1)
    \/ CleanupDelete(1)
    \/ ProcessedRead(1)
    \/ ProcessedWrite(1)

\* the thread is scheduled and time passes; no frame has to arrive
FairSpecTracker ==
    SpecTracker /\ WF_vars(TrackerProgress) /\ WF_vars(TrackerTick)

\* C9 (as claimed): a flow idle for longer than flow_timeout is eventually
\* out of the table, whether or not another packet is ingested
C9_Original == IdleFlowInTable ~> ~ IdleFlowInTable

\* C10 (as claimed): no two rows offered to the sink are for the same flow
\* entry and the same idle period
C10_Original ==
    \A i, j \in 1 .. Len(sink_flows) :
        (/\ sink_flows[i].session_id = sink_flows[j].session_id
         /\ sink_flows[i].start_time = sink_flows[j].start_time
         /\ sink_flows[i].end_time = sink_flows[j].end_time) => i = j

\* frame f was ingested for the flow id: _update_flow_session computed the
\* id from the frame's packet
IngestedFor(f, id) ==
    LET fid == _create_flow_id(_extract_packet_info(f)[1])
    IN  ~ fid.raised /\ fid.id = id

\* the number of the frames of a log that were ingested for the flow id
RECURSIVE IngestCount(_, _)
IngestCount(frames, id) ==
    IF frames = <<>> THEN 0
    ELSE (IF IngestedFor(Head(frames), id) THEN 1 ELSE 0)
         + IngestCount(Tail(frames), id)

\* the sum of the sizes of those frames
RECURSIVE IngestBytes(_, _)
IngestBytes(frames, id) ==
    IF frames = <<>> THEN 0
    ELSE (IF IngestedFor(Head(frames), id) THEN FrameTable[Head(frames)].len
          ELSE 0)
         + IngestBytes(Tail(frames), id)

\* the packets and the bytes that the rows of a log report for the flow id
RECURSIVE EmittedCount(_, _)
EmittedCount(rows, id) ==
    IF rows = <<>> THEN 0
    ELSE (IF Head(rows).session_id = id THEN Head(rows).packet_count ELSE 0)
         + EmittedCount(Tail(rows), id)

RECURSIVE EmittedBytes(_, _)
EmittedBytes(rows, id) ==
    IF rows = <<>> THEN 0
    ELSE (IF Head(rows).session_id = id THEN Head(rows).bytes_transferred
          ELSE 0)
         + EmittedBytes(Tail(rows), id)

\* the rows a step appends to sink_flows
NewRows == SubSeq(sink_flows', Len(sink_flows) + 1, Len(sink_flows'))

\* C11: the packet_count of a row that a sweep emits is the number of
\* packets ingested for the row's flow id since the entry was created
\* (all packets ingested for the id, less those that earlier rows for the
\* id account for), and its byte count is the sum of their sizes
C11_RecordCounts ==
    [][CleanupScan(1) =>
         \A i \in 1 .. Len(NewRows) :
             LET id == NewRows[i].session_id
             IN  /\ NewRows[i].packet_count =
                        IngestCount(sink_packets, id)
                            - EmittedCount(sink_flows, id)
                 /\ NewRows[i].bytes_transferred =
                        IngestBytes(sink_packets, id)
                            - EmittedBytes(sink_flows, id)]_vars

\* C11 witness: a row was emitted for a flow that two packets were
\* ingested for
C11_Witness ==
    \E i \in 1 .. Len(sink_flows) :
        /\ sink_flows[i].packet_count = 2
        /\ sink_flows[i].bytes_transferred = 128
        /\ IngestCount(sink_packets, sink_flows[i].session_id) = 2

\* C12 (as claimed): the duration of every emitted row is the flow's last
\* seen time less its start time
C12_Original ==
    \A i \in 1 .. Len(sink_flows) :
        sink_flows[i].duration =
            sink_flows[i].end_time - sink_flows[i].start_time

\* the rows of a log for the flow id
RowsFor(rows, id) == SelectSeq(rows, LAMBDA r : r.session_id = id)

\* C13: a sweep that finds a flow of one packet idle for longer than
\* flow_timeout emits exactly one row for it, with status "timeout",
\* packet_count 1 and a duration of at least flow_timeout, and lists it for
\* removal; when the removal has run the table holds none of the listed
\* keys
C13_ScenarioB ==
    [][/\ CleanupScan(1) =>
            \A i \in 1 .. Len(active_flows) :
                (/\ active_flows[i].packet_count = 1
                 /\ now - active_flows[i].last_seen > flow_timeout) =>
                    LET id == active_flows[i].session_id
                        rows == RowsFor(NewRows, id)
                    IN  /\ Len(rows) = 1
                        /\ rows[1].status = "timeout"
                        /\ rows[1].packet_count = 1
                        /\ rows[1].duration >= flow_timeout
                        /\ processor'[1].pc = "delete"
                        /\ \E j \in 1 .. Len(processor'[1].flows_to_remove) :
                               processor'[1].flows_to_remove[j] = id
       /\ CleanupDelete(1) =>
            \A j \in 1 .. Len(processor[1].flows_to_remove) :
                ~ HasFlow(active_flows', processor[1].flows_to_remove[j])]_vars

\* C13 witness: the flow of the scenario's packet was evicted after its
\* one packet: one row for it, and the table does not hold its key
C13_Witness ==
    LET id == _create_flow_id(_extract_packet_info(1)[1]).id
    IN  /\ processor[1].pc = "count_rd"
        /\ Len(RowsFor(sink_flows, id)) = 1
        /\ RowsFor(sink_flows, id)[1].packet_count = 1
        /\ RowsFor(sink_flows, id)[1].status = "timeout"
        /\ ~ HasFlow(active_flows, id)

\* C14 (as claimed): a start_capture call that finds the engine running
\* gives its caller an AlreadyRunningError
C14_Original ==
    [][\A k \in Callers :
          StartReturnsRunning(k) =>
              outcome'[k].raised = "AlreadyRunningError"]_vars

\* C15: a start_capture call that finds the engine running creates no
\* thread and leaves is_running, the start time and the counters, the
\* queue and the flow table as they were
C15_StartNoOp ==
    [][\A k \in Callers :
          StartReturnsRunning(k) =>
              /\ Spawned' = Spawned
              /\ UNCHANGED << capture, processor, capture_thread,
                              processor_thread >>
              /\ UNCHANGED << is_running, stats, packet_queue,
                              active_flows >>]_vars

\* C15 witness: the last call of a control thread was a start_capture
\* that found the engine running, with frames counted and queued
C15_Witness ==
    \E k \in Callers :
        /\ outcome[k] = Returned("start_capture", TRUE)
        /\ is_running
        /\ stats.packets_captured >= 1
        /\ packet_queue # <<>>

\* C16 (as claimed): no capture thread and no processor thread is ever
\* created by a start_capture on an interface that cannot be opened
C16_Original ==
    \A t \in Threads :
        (capture[t].pc # "unborn" \/ processor[t].pc # "unborn") =>
            capture[t].interface \in Openable

\* C17 (as claimed): when stop_capture returns without an error, the
\* capture thread and the processor thread it joined have ended
C17_Original ==
    [][\A k \in Callers :
          (/\ caller[k] = "join_processor"
           /\ caller'[k] = "idle"
           /\ outcome'[k].raised = "none") =>
              /\ IF capture_thread = 0 THEN TRUE
                 ELSE capture'[capture_thread].pc = "exited"
              /\ IF processor_thread = 0 THEN TRUE
                 ELSE processor'[processor_thread].pc = "exited"]_vars

\* the engine is stopped: is_running is cleared, no call is under way and
\* every thread that was created has ended
Stopped ==
    /\ ~ is_running
    /\ \A k \in Callers : caller[k] = "idle"
    /\ \A t \in Threads : /\ capture[t].pc \in {"unborn", "exited"}
                           /\ processor[t].pc \in {"unborn", "exited"}

\* C18 (as claimed): once the engine is stopped and its threads have
\* ended, the queue is empty
C18_Original == Stopped => packet_queue = <<>>

\* the steps of capture thread p that need no frame to arrive
CaptureProgress(p) ==
    \/ HandlerPut(p)
    \/ HandlerCapturedRead(p)
    \/ HandlerCapturedWrite(p)
    \/ HandlerBytesRead(p)
    \/ HandlerBytesWrite(p)
    \/ HandlerDroppedRead(p)
    \/ HandlerDroppedWrite(p)
    \/ StopFilter(p)

\* the steps that finish a call of control thread k that is under way
CallProgress(k) ==
    \/ StartSet(k)
    \/ StartSpawn(k)
    \/ JoinCapture(k)
    \/ JoinCaptureTimeout(k)
    \/ JoinProcessor(k)
    \/ JoinProcessorTimeout(k)

\* every thread is scheduled; no frame has to arrive, sniff need not fail
\* and no new call has to be made
FairSpecQueue ==
    /\ SpecQueue
    /\ \A p \in Threads : WF_vars(CaptureProgress(p))
    /\ \A c \in Threads : WF_vars(QueueProcessorStep(c))
    /\ \A k \in Callers : WF_vars(CallProgress(k))

\* stop_capture has cleared is_running and is about to join capture
\* thread p, which waits in sniff for a frame
StopLeavesSniffing(p) ==
    /\ ~ is_running
    /\ capture_thread = p
    /\ capture[p].pc = "sniff"
    /\ \E k \in Callers : caller[k] = "join_capture"

\* C19 (as claimed): a capture thread that waits for frames when
\* stop_capture has cleared is_running eventually ends (unless the engine
\* is started again), whether or not a further frame arrives
C19_Original ==
    \A p \in Threads :
        StopLeavesSniffing(p) ~> (capture[p].pc = "exited" \/ is_running)

\* the engine under traffic without IP layer with start_capture and
\* stop_capture as single steps
NextDrain ==
    \/ Start
    \/ Stop
    \/ \E p \in Threads : CaptureStep(p, QueueFrames)
    \/ \E c \in Threads : QueueProcessorStep(c)

SpecDrain == Init /\ [][NextDrain]_vars

\* the processor threads are scheduled; nothing is assumed of the capture
\* threads, the control thread or the arrival of frames
FairSpecDrain ==
    SpecDrain /\ \A c \in Threads : WF_vars(QueueProcessorStep(c))

\* C20: a processor thread ends only with the queue empty when is_running
\* is cleared, and a processor thread that is alive while is_running is
\* cleared eventually ends, unless the engine is started again
C20_ConsumerTerminates ==
    /\ [][\A c \in Threads :
             (/\ processor[c].pc # "exited"
              /\ processor'[c].pc = "exited"
              /\ ~ is_running) => packet_queue = <<>>]_vars
    /\ \A c \in Threads :
           (~ is_running /\ processor[c].pc \notin {"unborn", "exited"})
               ~> (processor[c].pc = "exited" \/ is_running)

\* C20 witness: after a stop_capture a processor thread that has
\* processed frames has ended, with the queue empty
C20_Witness ==
    /\ ~ is_running
    /\ stops > 0
    /\ packet_queue = <<>>
    /\ stats.packets_processed >= 2
    /\ \E c \in Threads : processor[c].pc = "exited"

(***************************************************************************)
(* SpecOrder: two processor threads on one queue.  The state Spec reaches  *)
(* by start_capture, stop_capture before a thread has run, start_capture   *)
(* again, and the arrival of frame 1 and then of frame 4; from there the   *)
(* engine runs as in Spec.  Frame 1 was enqueued before every frame 4.     *)
(***************************************************************************)
OrderInit ==
    /\ is_running = TRUE
    /\ packet_queue = << 1, 4 >>
    /\ stats = [packets_captured |-> 2, packets_processed |-> 0,
                packets_dropped |-> 0,
                bytes_captured |-> FrameTable[1].len + FrameTable[4].len,
                start_time |-> 0]
    /\ active_flows = <<>>
    /\ capture_thread = 2
    /\ processor_thread = 2
    /\ sink_packets = <<>>
    /\ sink_flows = <<>>
    /\ now = 0
    /\ delivered = 2
    /\ stops = 1
    /\ ticks = 0
    /\ capture = [p \in Threads |->
                    IF p \in {1, 2}
                    THEN [UnbornCapture EXCEPT !.pc = "sniff",
                                               !.interface = "eth0"]
                    ELSE UnbornCapture]
    /\ processor = [c \in Threads |->
                      IF c \in {1, 2}
                      THEN [UnbornProcessor EXCEPT !.pc = "while"]
                      ELSE UnbornProcessor]
    /\ caller = [k \in Callers |-> "idle"]
    /\ probe = NoProbe
    /\ outcome = [k \in Callers |-> Returned("start_capture", FALSE)]

NextOrder ==
    \/ Stop
    \/ \E p \in Threads : HandleFrame(p) \/ SniffRaises(p)
    \/ \E c \in Threads : ProcessorStep(c)
    \/ Tick

SpecOrder == OrderInit /\ [][NextOrder]_vars

\* the frames f occurs in the log at or before position i
OccursBy(log, f, i) == \E j \in 1 .. i : log[j] = f

\* C21 (as claimed): frames are ingested in the order they were enqueued:
\* frame 4 is never ingested before frame 1, which was enqueued before it
C21_Original ==
    \A i \in 1 .. Len(sink_packets) :
        sink_packets[i] = 4 => OccursBy(sink_packets, 1, i)

\* the processor threads that are alive
AliveProcessors == {c \in Threads : processor[c].pc \notin {"unborn", "exited"}}

\* C22 (as claimed): at most one processor thread is alive
C22_Original == Cardinality(AliveProcessors) <= 1

\* C23 (as claimed): while the engine runs no step lowers a counter
C23_Original ==
    [][(is_running /\ is_running') =>
          /\ stats'.packets_captured >= stats.packets_captured
          /\ stats'.packets_processed >= stats.packets_processed
          /\ stats'.packets_dropped >= stats.packets_dropped
          /\ stats'.bytes_captured >= stats.bytes_captured]_vars

(***************************************************************************)
(* SpecStats: get_statistics called by an external thread, statement by    *)
(* statement, at any time of the life of an engine that is started once:   *)
(* before start_capture, while the threads run, and after stop_capture.    *)
(* The dictionary the call builds is kept in probe.                        *)
(***************************************************************************)
RECURSIVE gcd(_, _)
gcd(a, b) == IF b = 0 THEN a ELSE gcd(b, a % b)

\* Python's true division a / b of two numbers, b > 0: the quotient, as
\* the fraction in lowest terms
TrueDiv(a, b) == [num |-> a \div gcd(a, b), den |-> b \div gcd(a, b)]
\* the number 0
Zero == [num |-> 0, den |-> 1]

\* lines 381-384 on the copy: the keys runtime_seconds and
\* packets_per_second are added when start_time is not None
WithRuntime(snap, clock) ==
    IF snap.start_time = None THEN snap
    ELSE LET runtime == clock - snap.start_time
         IN  [runtime_seconds |-> runtime,
              packets_per_second |->
                  IF runtime > 0 THEN TrueDiv(snap.packets_captured, runtime)
                  ELSE Zero] @@ snap

StatsUnchanged ==
    UNCHANGED << is_running, packet_queue, stats, active_flows,
                 capture_thread, processor_thread, capture, processor,
                 caller, sink_packets, sink_flows, now, delivered, stops,
                 ticks, outcome >>

\* line 377: stats = self.stats.copy()
GetStatisticsCopy ==
    /\ probe = NoProbe \/ probe.applied
    /\ probe' = [applied |-> FALSE, pc |-> "active_flows", stats |-> stats]
    /\ StatsUnchanged

\* line 378
GetStatisticsFlows ==
    /\ ~ probe.applied
    /\ probe # NoProbe
    /\ probe.pc = "active_flows"
    /\ probe' = [probe EXCEPT
                   !.pc = "queue_size",
                   !.stats = [active_flows |-> Len(active_flows)] @@ @]
    /\ StatsUnchanged

\* line 379
GetStatisticsQueue ==
    /\ ~ probe.applied
    /\ probe # NoProbe
    /\ probe.pc = "queue_size"
    /\ probe' = [probe EXCEPT
                   !.pc = "runtime",
                   !.stats = [queue_size |-> Len(packet_queue)] @@ @]
    /\ StatsUnchanged

\* lines 381-386: the clock is read and the dictionary is returned
GetStatisticsReturn ==
    /\ ~ probe.applied
    /\ probe # NoProbe
    /\ probe.pc = "runtime"
    /\ probe' = [probe EXCEPT !.applied = TRUE,
                              !.pc = "returned",
                              !.stats = WithRuntime(@, now)]
    /\ StatsUnchanged

get_statistics ==
    \/ GetStatisticsCopy
    \/ GetStatisticsFlows
    \/ GetStatisticsQueue
    \/ GetStatisticsReturn

\* the first start_capture of the engine
StatsStart == Spawned = 0 /\ Start

\* the steps of the only processor thread of an engine started once:
\* Queue.get finds the frame that the test of line 162 saw
SoleProcessorStep(c) ==
    \/ LoopExits(c)
    \/ LoopEnters(c)
    \/ QueueGet(c)
    \/ AnalyzeSkips(c)
    \/ AnalyzeUpdatesFlow(c)
    \/ CleanupScan(c)
    \/ CleanupDelete(c)
    \/ ProcessedRead(c)
    \/ ProcessedWrite(c)

NextStats ==
    \/ StatsStart
    \/ Stop
    \/ \E p \in Threads : HandleFrame(p) \/ SniffRaises(p)
    \/ \E c \in Threads : SoleProcessorStep(c)
    \/ Tick
    \/ get_statistics

SpecStats == Init /\ [][NextStats]_vars

\* the dictionary a finished call of get_statistics returned
Snapshots == IF probe # NoProbe /\ probe.applied THEN {probe.stats} ELSE {}

\* the keys of the dictionary that carry the fields of the snapshot:
\* captured, processed, dropped, bytesCaptured, activeFlows, queueDepth,
\* elapsedSeconds, packetsPerSecond
SnapshotKeys ==
    {"packets_captured", "packets_processed", "packets_dropped",
     "bytes_captured", "active_flows", "queue_size", "runtime_seconds",
     "packets_per_second"}
RateKeys == {"runtime_seconds", "packets_per_second"}

\* the rate of a snapshot is captured / elapsed, or 0 when no time elapsed
RateIsQuotient(snap) ==
    IF snap.runtime_seconds > 0
    THEN snap.packets_per_second.num * snap.runtime_seconds
            = snap.packets_captured * snap.packets_per_second.den
    ELSE snap.packets_per_second.num = 0

\* C24 (as claimed): every snapshot get_statistics returns carries a
\* rate, and the rate equals the snapshot's captured count divided by the
\* snapshot's elapsed seconds when these are positive and 0 otherwise
C24_Original ==
    \A snap \in Snapshots :
        /\ RateKeys \subseteq DOMAIN snap
        /\ RateIsQuotient(snap)

\* the relation of C24 in the snapshots that carry a rate
C24_RateWhereReported ==
    \A snap \in Snapshots :
        RateKeys \subseteq DOMAIN snap => RateIsQuotient(snap)

\* C25 (as claimed): every snapshot get_statistics returns, in any state
\* of the engine, carries all eight fields
C25_Original ==
    \A snap \in Snapshots : SnapshotKeys \subseteq DOMAIN snap

\* get_statistics changes no state of the engine
C25_NoEffect ==
    [][probe' # probe =>
         UNCHANGED << is_running, packet_queue, stats, active_flows,
                      capture_thread, processor_thread, capture, processor,
                      sink_packets, sink_flows >>]_vars

\* a dequeued frame for which _extract_packet_info gives no dictionary
Undecodable(f) == f # NoFrame /\ (FrameTable[f].malformed \/ ~ FrameTable[f].has_ip)

\* C26: when the processor thread leaves _analyze_packet for a frame
\* without IP layer, or one whose decoding raised, no row was offered to
\* the database, the flow table and the queue are as before, and the
\* thread goes on to count the frame as processed and to the next frame
C26_UndecodableSkipped ==
    [][(/\ processor[1].pc = "analyze"
        /\ Undecodable(processor[1].packet)
        /\ processor'[1] # processor[1])
       => /\ sink_packets' = sink_packets
          /\ sink_flows' = sink_flows
          /\ active_flows' = active_flows
          /\ packet_queue' = packet_queue
          /\ processor'[1].pc = "count_rd"]_vars

\* C26 witness: a frame whose decoding raised has left _analyze_packet
\* after an earlier packet had created a flow
C26_Witness ==
    /\ processor[1].pc = "count_rd"
    /\ processor[1].packet = 7
    /\ active_flows # <<>>
    /\ stats.packets_processed >= 1

(***************************************************************************)
(* SpecDecode: _extract_packet_info applied twice to one raw frame, at     *)
(* any two moments of the life of an engine that is started once.  probe   *)
(* keeps the frame, the two dictionaries with the clock values they were   *)
(* built at, and the captured counter, queue depth and flow table size at  *)
(* the two calls.                                                          *)
(***************************************************************************)
\* a decoder that numbers its dictionaries with the captured counter
DecodeNumbered(f, clock) ==
    IF _extract_packet_info(f) = <<>> THEN <<>>
    ELSE << [timestamp |-> clock, number |-> stats.packets_captured]
            @@ _extract_packet_info(f)[1] >>

\* _extract_packet_info with the 'timestamp' it reads from the clock
\* (line 193)
Decode(f, clock) ==
    IF _extract_packet_info(f) = <<>> THEN <<>>
    ELSE << [timestamp |-> clock] @@ _extract_packet_info(f)[1] >>

\* the frames decoded in SpecDecode: a TCP packet, a frame without IP
\* layer, a frame whose decoding raises
DecodeFrames == {1, 3, 7}

\* the engine state recorded at a call: the captured counter, the depth
\* of the queue and the size of the flow table
EngineState == << stats.packets_captured, Len(packet_queue), Len(active_flows) >>

DecodeFirst ==
    /\ probe = NoProbe
    /\ \E f \in DecodeFrames :
         probe' = [applied |-> FALSE, frame |-> f,
                   clock |-> << now >>, record |-> << Decode(f, now) >>,
                   engine |-> << EngineState >>]
    /\ StatsUnchanged

DecodeAgain ==
    /\ probe # NoProbe
    /\ ~ probe.applied
    /\ probe' = [probe EXCEPT
                   !.applied = TRUE,
                   !.clock = Append(@, now),
                   !.record = Append(@, Decode(probe.frame, now)),
                   !.engine = Append(@, EngineState)]
    /\ StatsUnchanged

NextDecode ==
    \/ StatsStart
    \/ Stop
    \/ \E p \in Threads : HandleFrame(p) \/ SniffRaises(p)
    \/ \E c \in Threads : SoleProcessorStep(c)
    \/ Tick
    \/ DecodeFirst
    \/ DecodeAgain

SpecDecode == Init /\ [][NextDecode]_vars

\* both calls of the decoder were made
DecodedTwice == probe # NoProbe /\ probe.applied

CountOf(flows, id) ==
    IF HasFlow(flows, id) THEN flows[FlowIndex(flows, id)].packet_count ELSE 0

\* the processor thread leaves _store_packet with a failure, for a packet
\* whose flow id can be computed
StoreFailed ==
    /\ processor[1].pc = "analyze"
    /\ _extract_packet_info(processor[1].packet) # <<>>
    /\ ~ _create_flow_id(_extract_packet_info(processor[1].packet)[1]).raised
    /\ processor'[1].pc # "analyze"
    /\ processor'[1].stored = << FALSE >>

\* C28: when the database fails for a packet row, the packet is still
\* ingested by the flow tracker (its flow is in the table, with one
\* packet more than before and last seen now) and the thread goes on to
\* the sweep; and whenever the thread is back at its loop, every frame it
\* took was counted as processed
C28_SinkFailureIsolated ==
    /\ [][StoreFailed =>
            LET id == _create_flow_id(
                          _extract_packet_info(processor[1].packet)[1]).id
            IN  /\ HasFlow(active_flows', id)
                /\ CountOf(active_flows', id) = CountOf(active_flows, id) + 1
                /\ active_flows'[FlowIndex(active_flows', id)].last_seen = now
                /\ processor'[1].pc = "cleanup"]_vars
    /\ [](processor[1].pc = "while" => stats.packets_processed = delivered)

\* C28 witness: the database failed for the second packet of a flow and
\* the flow was updated
C28_Witness ==
    /\ processor[1].pc = "cleanup"
    /\ processor[1].stored = << FALSE >>
    /\ \E i \in 1 .. Len(active_flows) : active_flows[i].packet_count = 2
    /\ stats.packets_processed = 1

\* the flows of the table that are over the timeout now
OverTimeout == {i \in 1 .. Len(active_flows) : IsOld(active_flows[i], now)}

\* the first loop of a sweep ends
SweepEmits == processor[1].pc = "cleanup" /\ processor'[1].pc # "cleanup"

\* the second loop of a sweep ends, after the database refused a row
SweepDeletesAfterFailure ==
    /\ processor[1].pc = "delete"
    /\ processor'[1].pc # "delete"
    /\ \E i \in 1 .. Len(processor[1].stored) : ~ processor[1].stored[i]

\* C29: a sweep offers one row for every flow over the timeout and lists
\* every such flow for removal, whatever the database answers; a sweep in
\* which the database refused a row removes every listed flow, the
\* refused one included; and no flow is offered to the database twice
\* (two rows of one session id belong to flows created at different times)
C29_AtMostOnce ==
    /\ [][SweepEmits =>
            /\ Len(sink_flows') = Len(sink_flows) + Cardinality(OverTimeout)
            /\ \A i \in OverTimeout :
                 /\ \E j \in Len(sink_flows) + 1 .. Len(sink_flows') :
                      sink_flows'[j].session_id = active_flows[i].session_id
                 /\ \E k \in 1 .. Len(processor'[1].flows_to_remove) :
                      processor'[1].flows_to_remove[k]
                          = active_flows[i].session_id]_vars
    /\ [][SweepDeletesAfterFailure =>
            /\ \A k \in 1 .. Len(processor[1].flows_to_remove) :
                 ~ HasFlow(active_flows', processor[1].flows_to_remove[k])
            /\ Len(active_flows')
                 = Len(active_flows) - Len(processor[1].flows_to_remove)
            /\ sink_flows' = sink_flows]_vars
    /\ [](\A i, j \in 1 .. Len(sink_flows) :
            (i < j /\ sink_flows[i].session_id = sink_flows[j].session_id)
               => sink_flows[i].start_time < sink_flows[j].start_time)

\* C29 witness: a sweep found two flows over the timeout, the database
\* refused the row of the first and took the row of the second, and both
\* rows were offered
C29_Witness ==
    /\ processor[1].pc = "delete"
    /\ Len(processor[1].flows_to_remove) = 2
    /\ processor[1].stored = << FALSE, TRUE >>
    /\ Len(sink_flows) = 2

(***************************************************************************)
(* SpecAutoSelect: the pure function auto_select_interface applied to a    *)
(* list of interfaces (get_available_interfaces) and to what               *)
(* psutil.net_if_stats() tells about each name.                            *)
(***************************************************************************)
\* longest list of interfaces
MaxInterfaces == 3
\* interface names
IfNames == {"lo", "localhost", "eth0", "wlan0"}
\* the names the source takes for loopback interfaces
LoopbackNames == {"lo", "localhost"}
\* psutil.net_if_stats().get(name): an entry with isup set or cleared, None
\* for a name psutil does not know, or an exception
IfStats == {"up", "down", "none", "raises"}

InterfaceLists ==
    UNION { [1 .. n -> IfNames] : n \in 0 .. MaxInterfaces }

\* a selection that does not ask whether the interface is up
RECURSIVE FirstUpUnasked(_, _)
FirstUpUnasked(interfaces, net_if_stats) ==
    IF interfaces = <<>> THEN <<>>
    ELSE IF Head(interfaces) \in LoopbackNames
         THEN FirstUpUnasked(Tail(interfaces), net_if_stats)
         ELSE << Head(interfaces) >>

\* the first loop (lines 60-70): the first name that is not loopback and
\* for which `stats and stats.isup` holds; an exception passes to the
\* next name
RECURSIVE FirstUp(_, _)
FirstUp(interfaces, net_if_stats) ==
    IF interfaces = <<>> THEN <<>>
    ELSE IF Head(interfaces) \in LoopbackNames
         THEN FirstUp(Tail(interfaces), net_if_stats)
         ELSE IF net_if_stats[Head(interfaces)] = "up"
              THEN << Head(interfaces) >>
              ELSE FirstUp(Tail(interfaces), net_if_stats)

\* the second loop (lines 73-75)
RECURSIVE FirstNonLoopback(_)
FirstNonLoopback(interfaces) ==
    IF interfaces = <<>> THEN <<>>
    ELSE IF Head(interfaces) \notin LoopbackNames
         THEN << Head(interfaces) >>
         ELSE FirstNonLoopback(Tail(interfaces))

\* auto_select_interface (lines 57-77)
auto_select_interface(interfaces, net_if_stats) ==
    IF FirstUp(interfaces, net_if_stats) # <<>>
    THEN FirstUp(interfaces, net_if_stats)[1]
    ELSE IF FirstNonLoopback(interfaces) # <<>>
         THEN FirstNonLoopback(interfaces)[1]
         ELSE IF interfaces # <<>> THEN interfaces[1] ELSE "eth0"

AutoSelectInit ==
    /\ EngineInit
    /\ capture = [p \in Threads |-> UnbornCapture]
    /\ processor = [c \in Threads |-> UnbornProcessor]
    /\ caller = [k \in Callers |-> "idle"]
    /\ outcome = [k \in Callers |-> NoOutcome]
    /\ probe \in { [applied |-> FALSE, interfaces |-> l, net_if_stats |-> st,
                    selected |-> NoInterface] :
                   l \in InterfaceLists, st \in [IfNames -> IfStats] }

AutoSelect ==
    /\ ~ probe.applied
    /\ probe' = [probe EXCEPT
                   !.applied = TRUE,
                   !.selected = auto_select_interface(probe.interfaces,
                                                      probe.net_if_stats)]
    /\ StatsUnchanged

NextAutoSelect == AutoSelect

SpecAutoSelect == AutoSelectInit /\ [][NextAutoSelect]_vars

\* positions of a list whose interface is not loopback
NonLoopbackAt(l) == {i \in 1 .. Len(l) : l[i] \notin LoopbackNames}
\* positions of a list whose interface is not loopback and reported up
UpAt(l, st) == {i \in NonLoopbackAt(l) : st[l[i]] = "up"}
Least(S) == CHOOSE i \in S : \A j \in S : i <= j

C31_Original ==
    (probe.applied /\ probe.interfaces = <<>>) => probe.selected \notin IfNames

\* C32: every flow of the table has start_time <= last_seen, at least one
\* packet and status 'active'; and a flow that is in the table before and
\* after a step has not gone back in last_seen, packet_count or
\* bytes_transferred
C32_FlowMonotone ==
    /\ [](\A i \in 1 .. Len(active_flows) :
            /\ active_flows[i].start_time <= active_flows[i].last_seen
            /\ active_flows[i].packet_count >= 1
            /\ active_flows[i].status = "active")
    /\ [][\A i \in 1 .. Len(active_flows) :
            LET id == active_flows[i].session_id
            IN  HasFlow(active_flows', id) =>
                  LET after == active_flows'[FlowIndex(active_flows', id)]
                  IN  /\ after.last_seen >= active_flows[i].last_seen
                      /\ after.packet_count >= active_flows[i].packet_count
                      /\ after.bytes_transferred
                            >= active_flows[i].bytes_transferred
                      /\ after.start_time = active_flows[i].start_time]_vars

\* C32 witness: a flow that took three packets while the clock advanced
C32_Witness ==
    \E i \in 1 .. Len(active_flows) :
        /\ active_flows[i].packet_count = 3
        /\ active_flows[i].bytes_transferred = 192
        /\ active_flows[i].last_seen > active_flows[i].start_time

(***************************************************************************)
(* SpecFail: as SpecDrain, with the calls of stop_capture that find the    *)
(* engine stopped.                                                         *)
(***************************************************************************)
NextFail ==
    \/ Start
    \/ Stop
    \/ \E k \in Callers : StopReturnsStopped(k)
    \/ \E p \in Threads : CaptureStep(p, QueueFrames)
    \/ \E c \in Threads : QueueProcessorStep(c)

SpecFail == Init /\ [][NextFail]_vars

\* the processor threads are scheduled
FairSpecFail ==
    SpecFail /\ \A c \in Threads : WF_vars(QueueProcessorStep(c))

\* no processor thread is alive
NoConsumer == \A c \in Threads : processor[c].pc \in {"unborn", "exited"}

\* C33: a capture thread whose sniff raises while the engine runs clears
\* is_running; the engine, stopped in this way, is eventually left with
\* an empty queue and no processor thread (unless it is started again); a
\* stop_capture on it warns and changes nothing; and a start_capture on
\* it sets is_running and creates a new pair of threads
C33_FailureStops ==
    /\ [][\A p \in Threads :
            (is_running /\ capture[p].pc = "sniff"
               /\ capture'[p].pc = "exited") => ~ is_running']_vars
    /\ (~ is_running /\ Spawned > 0 /\ stops = 0)
          ~> (is_running \/ (NoConsumer /\ packet_queue = <<>>))
    /\ [][\A k \in Callers :
            (/\ ~ is_running
             /\ outcome'[k] # outcome[k]
             /\ outcome'[k].op = "stop_capture")
               => /\ outcome'[k].warned
                  /\ UNCHANGED << is_running, packet_queue, stats,
                                  active_flows, capture_thread,
                                  processor_thread, capture, processor >>]_vars
    /\ [][(~ is_running /\ is_running')
            => /\ Spawned' = Spawned + 1
               /\ processor'[processor_thread'].pc = "while"]_vars

\* C33 witness: with no stop_capture on a running engine, the engine was
\* stopped by a failure of its capture thread, started again, stopped by
\* a second failure, and has processed frames and emptied its queue, and
\* a stop_capture found nothing to stop
C33_Witness ==
    /\ stops = 0
    /\ ~ is_running
    /\ Spawned = 2
    /\ NoConsumer
    /\ packet_queue = <<>>
    /\ stats.packets_processed >= 2
    /\ \E k \in Callers : outcome[k] = Returned("stop_capture", TRUE)

(***************************************************************************)
(* SpecRace: two request threads of the web control surface call           *)
(* start_capture on a stopped engine, statement by statement; the threads  *)
(* they create run as in SpecQueue.                                        *)
(***************************************************************************)
RaceCallers == {1, 2}

RaceInit ==
    /\ EngineInit
    /\ capture = [p \in Threads |-> UnbornCapture]
    /\ processor = [c \in Threads |-> UnbornProcessor]
    /\ caller = [k \in RaceCallers |-> "idle"]
    /\ probe = NoProbe
    /\ outcome = [k \in RaceCallers |-> NoOutcome]

StartStep(k) ==
    \/ StartReturnsRunning(k)
    \/ StartCheck(k)
    \/ StartSet(k)
    \/ StartSpawn(k)

NextRace ==
    \/ \E k \in RaceCallers : StartStep(k)
    \/ \E p \in Threads : CaptureStep(p, QueueFrames)
    \/ \E c \in Threads : QueueProcessorStep(c)

SpecRace == RaceInit /\ [][NextRace]_vars

AliveCaptures == {p \in Threads : capture[p].pc \notin {"unborn", "exited"}}

\* C34 (as claimed): of two start_capture calls made at the same time on
\* a stopped engine at most one creates threads: never are two capture
\* threads, or two processor threads, alive
C34_Original ==
    /\ Cardinality(AliveCaptures) <= 1
    /\ Cardinality(AliveProcessors) <= 1

\* C35 (as claimed): at a quiescent snapshot
\* captured = processed + queue depth
C35_Original ==
    Quiescent =>
        stats.packets_captured = stats.packets_processed + Len(packet_queue)

\* the relation of C35 while the engine has created one pair of threads
C35_OnePair ==
    (Quiescent /\ Spawned <= 1) =>
        stats.packets_captured = stats.packets_processed + Len(packet_queue)

\* C36 (as claimed): in every reachable state processed <= captured
C36_Original == stats.packets_processed <= stats.packets_captured

\* C37: a frame handed to packet_handler while is_running is false leaves
\* the queue and all counters as they were, and the handler keeps no
\* frame to enqueue later
C37_IgnoredWhenStopped ==
    [][(~ is_running /\ delivered' # delivered) =>
          /\ packet_queue' = packet_queue
          /\ stats' = stats
          /\ \A p \in Threads : capture'[p].packet = capture[p].packet]_vars

\* C37 witness: the only frame delivered so far came after is_running was
\* cleared, and the handler has returned without enqueuing or counting it
C37_Witness ==
    /\ ~ is_running
    /\ delivered = 1
    /\ packet_queue = <<>>
    /\ stats.packets_captured = 0
    /\ stats.packets_dropped = 0
    /\ stats.bytes_captured = 0
    /\ \E p \in Threads :
         capture[p].pc = "stop_filter" /\ capture[p].packet = NoFrame

\* the counters, the queue and the flow table
Accumulated ==
    << stats.packets_captured, stats.packets_processed, stats.packets_dropped,
       stats.bytes_captured, packet_queue, active_flows >>

\* a statement of start_capture or stop_capture is executed
ControlStep == caller' # caller \/ outcome' # outcome

\* the frame effect of C38: no statement of start_capture or
\* stop_capture changes a counter, the queue or the flow table
C38_ControlPreserves == [][ControlStep => Accumulated' = Accumulated]_vars

\* C38 (as claimed): start_capture and stop_capture change no counter, no
\* queue content and no flow, and over the whole life of the engine no
\* step lowers a counter
C38_Original ==
    [][/\ ControlStep => Accumulated' = Accumulated
       /\ stats'.packets_captured >= stats.packets_captured
       /\ stats'.packets_processed >= stats.packets_processed
       /\ stats'.packets_dropped >= stats.packets_dropped
       /\ stats'.bytes_captured >= stats.bytes_captured]_vars

\* C39: a FlowSession row is offered to the database only by the first
\* loop of a sweep, and a sweep is entered only from the flow update of
\* an ingested packet; the step of stop_capture offers no row and leaves
\* the flow table as it was
C39_RowsOnlyFromSweep ==
    /\ [][sink_flows' # sink_flows =>
            \E c \in Threads :
                /\ processor[c].pc = "cleanup"
                /\ processor'[c].pc \in {"delete", "count_rd"}]_vars
    /\ [][\A c \in Threads :
            (processor'[c].pc = "cleanup" /\ processor[c].pc # "cleanup")
               => /\ processor[c].pc = "analyze"
                  /\ sink_packets' # sink_packets
                  /\ active_flows' # <<>>]_vars
    /\ [][stops' # stops =>
            /\ sink_flows' = sink_flows
            /\ active_flows' = active_flows]_vars

\* C39 witness: the engine was stopped and its threads have ended; a flow
\* is still in the table and no row was offered for it
C39_Witness ==
    /\ stops >= 1
    /\ ~ is_running
    /\ NoConsumer
    /\ packet_queue = <<>>
    /\ Len(active_flows) >= 1
    /\ sink_flows = <<>>

\* the processor thread leaves _analyze_packet for a decoded IP packet
Ingested ==
    /\ processor[1].pc = "analyze"
    /\ _extract_packet_info(processor[1].packet) # <<>>
    /\ processor'[1].pc # "analyze"

\* C40 (as claimed): after the ingest of a decoded IP packet the flow
\* table holds a flow between the packet's two addresses with the
\* packet's protocol, and the sweep is run
C40_Original ==
    [][Ingested =>
          LET info == _extract_packet_info(processor[1].packet)[1]
          IN  /\ \E i \in 1 .. Len(active_flows') :
                   /\ {active_flows'[i].src_ip, active_flows'[i].dst_ip}
                         = {info.src_ip, info.dst_ip}
                   /\ active_flows'[i].protocol = info.protocol_name
                   /\ active_flows'[i].last_seen = now
              /\ processor'[1].pc = "cleanup"]_vars

====
